---------------------------- MODULE Spec2Model ----------------------------
(***************************************************************************)
(* ESPER Email Swarm: packet fusion (benevolence_clamp), semantic routing  *)
(* (route_email), the five-agent packet assembler (analyze_email_agents)   *)
(* and the single-file routing engine (BenevolentFusion).                  *)
(*                                                                         *)
(* Two source trees implement the same modules and are both modelled:      *)
(*   "main"        src/esper-email-swarm/                                  *)
(*   "refactored"  src/refactored/esper-email-swarm/                       *)
(* The single-file engine is src/esper_email_swarm.py.                     *)
(*                                                                         *)
(* Scores are Python floats in the source.  Here a score is an integer     *)
(* number of units, One units making 1.0, so that every mean and every     *)
(* blend of the inputs the model draws is computed exactly (ExactDivision  *)
(* states that no division of the model ever rounds).                      *)
(***************************************************************************)
EXTENDS Integers, Sequences, FiniteSets, TLC

VARIABLES
    variant,    \* source tree whose code runs: "main", "refactored", "monolith"
    op,         \* the operation that ran last
    raised,     \* the exception the last operation propagated, or "none"
    packets,    \* Dict[str, VSEPacket] in insertion order, keyed by agent_role
    metadata,   \* EmailMetadata
    scores,     \* what the five agents returned for the message at hand
    fused,      \* return value of benevolence_clamp
    analysis,   \* EmailAnalysis returned by route_email
    legacy,     \* result dict of BenevolentFusion.merge_packets
    inexact,    \* TRUE once a division of the model has rounded
    ret,        \* the last call of a function of model.py: name, arguments, result
    imap,       \* the last IMAPClient.fetch_messages call: server, limit, outcome
    batch,      \* a batch run over fetched messages: loop position, results, exit
    runs,       \* outcomes of successive pipeline runs on one message
    client      \* an IMAPClient object and the server session behind it

coreVars == << variant, op, raised, packets, metadata, scores, fused, analysis, legacy, inexact >>

extVars == << ret, imap, batch, runs, client >>

vars == << variant, op, raised, packets, metadata, scores, fused, analysis, legacy, inexact,
           ret, imap, batch, runs, client >>

----------------------------------------------------------------------------
(* Bounds of the model *)

\* largest hand-built packet mapping
MaxPackets == 2

\* longest digest handed to glyph_from_hash
MaxDigestLen == 32

\* most messages one batch run fetches
MaxMessages == 3

\* most message ids a search returns
MaxIds == 3

\* latest reading of the clock that stamps the packets
MaxClock == 3

\* most words of a text or subject line handed to the urgency agent
MaxWords == 2

\* most indicators of one kind the tone agent finds in a text
MaxIndicators == 6

\* most pattern matches of one action category in a text
MaxMatches == 2

----------------------------------------------------------------------------
(* Fixed-point scores *)

One == 60 * 100
Tenth == One \div 10

\* faulty variant of Clamp: no range clamp at all
NoClamp(lo, hi, x) == x

\* max(lo, min(hi, x))
Clamp(lo, hi, x) == IF x > hi THEN hi ELSE IF x < lo THEN lo ELSE x

Divides(n, a) == a % n = 0

Max(S) == CHOOSE x \in S : \A y \in S : y <= x

Min(S) == CHOOSE x \in S : \A y \in S : x <= y

----------------------------------------------------------------------------
(* Strings *)

UpperCase == "ABCDEFGHIJKLMNOPQRSTUVWXYZ"
LowerCase == "abcdefghijklmnopqrstuvwxyz"

LowerChar(c) ==
    IF \E i \in 1..Len(UpperCase) : SubSeq(UpperCase, i, i) = c
    THEN LET i == CHOOSE j \in 1..Len(UpperCase) : SubSeq(UpperCase, j, j) = c
         IN  SubSeq(LowerCase, i, i)
    ELSE c

\* str.lower()
RECURSIVE Lower(_)
Lower(s) ==
    IF Len(s) = 0 THEN ""
    ELSE IF Len(s) = 1 THEN LowerChar(s)
    ELSE LET half == Len(s) \div 2
         IN  Lower(SubSeq(s, 1, half)) \o Lower(SubSeq(s, half + 1, Len(s)))

\* sub in s
Contains(s, sub) ==
    \E i \in 1..(Len(s) - Len(sub) + 1) : SubSeq(s, i, i + Len(sub) - 1) = sub

\* sep.join(parts)
RECURSIVE Join(_, _)
Join(sep, parts) ==
    IF Len(parts) = 0 THEN ""
    ELSE IF Len(parts) = 1 THEN parts[1]
    ELSE parts[1] \o sep \o Join(sep, Tail(parts))

\* str.strip() for blanks
RECURSIVE Strip(_)
Strip(s) ==
    IF Len(s) = 0 THEN ""
    ELSE IF SubSeq(s, 1, 1) = " " THEN Strip(SubSeq(s, 2, Len(s)))
    ELSE IF SubSeq(s, Len(s), Len(s)) = " " THEN Strip(SubSeq(s, 1, Len(s) - 1))
    ELSE s

\* s.split(":", 1)[1]
AfterFirstColon(s) ==
    LET i == CHOOSE j \in 1..Len(s) :
                 /\ SubSeq(s, j, j) = ":"
                 /\ \A k \in 1..(j - 1) : SubSeq(s, k, k) # ":"
    IN  SubSeq(s, i + 1, Len(s))

\* list(dict.fromkeys(xs)): duplicates removed, first occurrences kept in order
RECURSIVE Dedup(_)
Dedup(xs) ==
    IF Len(xs) = 0 THEN << >>
    ELSE LET front == Dedup(SubSeq(xs, 1, Len(xs) - 1))
             last == xs[Len(xs)]
         IN  IF \E i \in 1..Len(front) : front[i] = last THEN front
             ELSE Append(front, last)

----------------------------------------------------------------------------
(* PICTOGRAM-256 glyphs; a glyph is its Unicode code point *)

PICTOGRAM_GLYPHS ==
    << 9679, 9675, 9680, 9681, 9682, 9683, 9684, 9685,
       9670, 9671, 9672, 9673, 9674, 11033, 9676, 9677,
       8593, 8595, 8592, 8594, 8598, 8599, 8600, 8601,
       10226, 10227, 8634, 8635, 10548, 10549, 10550, 10551,
       8767, 8764, 8776, 8779, 8765, 8766, 8771, 8773,
       8743, 8744, 8891, 8892, 8893, 8853, 8854, 8855,
       9889, 9873, 9872, 9888, 9883, 9885, 9886, 9887,
       9824, 9827, 9829, 9830, 9828, 9831, 9825, 9826 >>

SEMANTIC_GLYPHS ==
    << 9679, 9675, 9680, 9681, 9682, 9683, 9684, 9685,
       9670, 9671, 9672, 9673, 9674, 9675, 9676, 9677,
       8593, 8595, 8592, 8594, 8598, 8599, 8600, 8601,
       10226, 10227, 8634, 8635, 10548, 10549, 10550, 10551,
       8767, 8764, 8776, 8779, 8765, 8766, 8771, 8773,
       8743, 8744, 8891, 8892, 8893, 8853, 8854, 8855,
       9889, 9873, 9872, 9888, 9883, 9885, 9886, 9887,
       9824, 9827, 9829, 9830, 9828, 9831, 9825, 9826 >>

\* bytes are 0-indexed in the source: motif[k] is the (k+1)-th element here.
\* A read past the end raises IndexError.
GlyphAt(table, motif) ==
    IF Len(motif) < 17 THEN [exc |-> "IndexError"]
    ELSE [exc |-> "none",
          val |-> << table[(motif[1] % Len(table)) + 1],
                     table[(motif[9] % Len(table)) + 1],
                     table[(motif[17] % Len(table)) + 1] >>]

\* main: motifs shorter than 3 bytes are zero-padded to 3 bytes first
glyph_from_hash(motif) ==
    LET padded == IF Len(motif) < 3
                  THEN motif \o [i \in 1..(3 - Len(motif)) |-> 0]
                  ELSE motif
    IN  GlyphAt(PICTOGRAM_GLYPHS, padded)

refactored_glyph_from_hash(motif) == GlyphAt(SEMANTIC_GLYPHS, motif)

----------------------------------------------------------------------------
(* Data model *)

SpineFields == {"urgency", "importance", "warmth", "tension", "confidence"}
AffectFields == {"joy", "sorrow", "anger", "fear", "trust", "surprise"}

\* declared lower end of a signal dimension
SpineLow(v, f) == IF v = "main" /\ f = "warmth" THEN -One ELSE 0

\* main: IntentSpine.__post_init__ clamps every field into its range
IntentSpine(raw) ==
    [exc |-> "none",
     val |-> [f \in SpineFields |-> Clamp(SpineLow("main", f), One, raw[f])]]

\* refactored: IntentSpine.__post_init__ raises ValueError outside [0, 1]
refactored_IntentSpine(raw) ==
    IF \E f \in SpineFields : ~(0 <= raw[f] /\ raw[f] <= One)
    THEN [exc |-> "ValueError"]
    ELSE [exc |-> "none", val |-> raw]

\* main: AffectLattice.__post_init__ clamps every field to [0, 1]
AffectLattice(raw) ==
    [exc |-> "none", val |-> [f \in AffectFields |-> Clamp(0, One, raw[f])]]

\* refactored: AffectLattice.__post_init__ raises ValueError outside [0, 1]
refactored_AffectLattice(raw) ==
    IF \E f \in AffectFields : ~(0 <= raw[f] /\ raw[f] <= One)
    THEN [exc |-> "ValueError"]
    ELSE [exc |-> "none", val |-> raw]

ZeroAffect == [f \in AffectFields |-> 0]

\* VSEPacket(...): the arguments are evaluated first, so a raising IntentSpine or
\* AffectLattice constructor leaves no packet.  main stores confidence as given;
\* refactored validates it in __post_init__.
VSEPacket(v, role, rawSpine, rawAffect, motif, gloss, confidence) ==
    LET spine == IF v = "main" THEN IntentSpine(rawSpine)
                 ELSE refactored_IntentSpine(rawSpine)
        affect == IF v = "main" THEN AffectLattice(rawAffect)
                  ELSE refactored_AffectLattice(rawAffect)
    IN  IF spine.exc # "none" THEN [exc |-> spine.exc]
        ELSE IF affect.exc # "none" THEN [exc |-> affect.exc]
        ELSE IF v = "refactored" /\ ~(0 <= confidence /\ confidence <= One)
        THEN [exc |-> "ValueError"]
        ELSE [exc |-> "none",
              val |-> [agent_role |-> role,
                       intent_spine |-> spine.val,
                       affect_lattice |-> affect.val,
                       semantic_motif |-> motif,
                       gloss |-> gloss,
                       confidence |-> confidence]]

\* packets.get(role): the packet stored under the key, or None
HasKey(ps, role) == \E i \in 1..Len(ps) : ps[i].agent_role = role
Get(ps, role) == ps[CHOOSE i \in 1..Len(ps) : ps[i].agent_role = role]

----------------------------------------------------------------------------
(* Benevolent fusion: benevolence_clamp *)

RECURSIVE SumField(_, _)
SumField(ps, f) ==
    IF Len(ps) = 0 THEN 0 ELSE ps[1].intent_spine[f] + SumField(Tail(ps), f)

\* faulty variant of Mean: only the packets that addressed the dimension count
MeanOfAddressed(ps, f) ==
    LET addressed == SelectSeq(ps, LAMBDA p : p.intent_spine[f] # 0)
    IN  IF Len(addressed) = 0 THEN 0 ELSE SumField(ps, f) \div Len(addressed)

\* sum(p.intent_spine.<f> for p in packets.values()) / n
Mean(ps, f) == SumField(ps, f) \div Len(ps)

\* faulty variant of clamp_tension: blends whenever the message is warm
clamp_tension_when_warm(warmth, tension) ==
    IF warmth > 6 * Tenth THEN (tension + warmth) \div 2 ELSE tension

\* if warmth > 0.6 and tension > 0.7: tension = (tension + warmth) / 2.0
clamp_tension(warmth, tension) ==
    IF warmth > 6 * Tenth /\ tension > 7 * Tenth
    THEN (tension + warmth) \div 2
    ELSE tension

\* lowest warmth the final range clamp of a source tree lets through
WarmthFloor(v) == IF v = "main" THEN -One ELSE 0

\* faulty variant of FuseScores: the urgency is averaged over the tension field
FuseScoresUrgencyFromTension(v, ps) ==
    LET urgency == Mean(ps, "tension")
        importance == Mean(ps, "importance")
        warmth == Mean(ps, "warmth")
        tension == clamp_tension(warmth, Mean(ps, "tension"))
    IN  [exc |-> "none",
         urgency |-> Clamp(0, One, urgency),
         importance |-> Clamp(0, One, importance),
         warmth |-> Clamp(WarmthFloor(v), One, warmth),
         tension |-> Clamp(0, One, tension)]

FuseScores(v, ps) ==
    LET urgency == Mean(ps, "urgency")
        importance == Mean(ps, "importance")
        warmth == Mean(ps, "warmth")
        tension == clamp_tension(warmth, Mean(ps, "tension"))
    IN  [exc |-> "none",
         urgency |-> Clamp(0, One, urgency),
         importance |-> Clamp(0, One, importance),
         warmth |-> Clamp(WarmthFloor(v), One, warmth),
         tension |-> Clamp(0, One, tension)]

\* main
benevolence_clamp(ps) ==
    IF Len(ps) = 0 THEN [exc |-> "ValueError"] ELSE FuseScores("main", ps)

\* refactored
refactored_benevolence_clamp(ps) ==
    IF Len(ps) = 0 THEN [exc |-> "ValueError"] ELSE FuseScores("refactored", ps)

\* no division of a fusion of ps rounds
FusionExact(ps) ==
    \/ Len(ps) = 0
    \/ /\ \A f \in {"urgency", "importance", "warmth", "tension"} :
              Divides(Len(ps), SumField(ps, f))
       /\ Divides(2, Mean(ps, "tension") + Mean(ps, "warmth"))

----------------------------------------------------------------------------
(* Semantic routing: route_email *)

ROUTING_CATEGORIES ==
    ("1-URGENT-NOW" :> [color |-> "#FF3B30", priority |-> "critical"]) @@
    ("2-Important" :> [color |-> "#FF9500", priority |-> "high"]) @@
    ("3-Action-Required" :> [color |-> "#FFCC00", priority |-> "medium"]) @@
    ("4-Read-Later" :> [color |-> "#34C759", priority |-> "low"]) @@
    ("5-Reference" :> [color |-> "#8E8E93", priority |-> "low"])

Folders == DOMAIN ROUTING_CATEGORIES

\* folder, color and priority of one category, assigned together in the source
Category(folder) ==
    [folder |-> folder,
     color |-> ROUTING_CATEGORIES[folder].color,
     priority |-> ROUTING_CATEGORIES[folder].priority]

Glosses(ps) == [i \in 1..Len(ps) |-> ps[i].gloss]

\* main, step 4: newsletter / bulk mail detection
is_newsletter(ps, md) ==
    LET body_text == Lower(Join(" ", Glosses(ps)))
        subject_lower == Lower(md.subject)
        sender_lower == Lower(md.sender)
    IN  \/ Contains(body_text, "newsletter")
        \/ Contains(body_text, "unsubscribe")
        \/ Contains(subject_lower, "digest")
        \/ Contains(subject_lower, "weekly") /\ Contains(subject_lower, "update")
        \/ Contains(sender_lower, "newsletter@")
        \/ Contains(sender_lower, "noreply@")

\* refactored: _detect_newsletter(packets, metadata.subject)
detect_newsletter(ps, subject) ==
    LET combined_text == Join(" ", [i \in 1..Len(ps) |-> Lower(ps[i].gloss)])
        subject_lower == Lower(subject)
    IN  \/ Contains(combined_text, "newsletter")
        \/ Contains(combined_text, "unsubscribe")
        \/ Contains(subject_lower, "digest")
        \/ Contains(subject_lower, "weekly update")
        \/ Contains(subject_lower, "monthly update")

\* faulty variant of threshold_category: importance is tested before urgency
importance_first_category(urgency, importance, newsletter) ==
    IF importance > 6 * Tenth THEN Category("2-Important")
    ELSE IF urgency > 7 * Tenth THEN Category("1-URGENT-NOW")
    ELSE IF newsletter THEN Category("4-Read-Later")
    ELSE IF urgency > 4 * Tenth \/ importance > 3 * Tenth
    THEN Category("3-Action-Required")
    ELSE Category("5-Reference")

\* the threshold chain, first match wins (main step 5, refactored step 4)
threshold_category(urgency, importance, newsletter) ==
    IF urgency > 7 * Tenth THEN Category("1-URGENT-NOW")
    ELSE IF importance > 6 * Tenth THEN Category("2-Important")
    ELSE IF newsletter THEN Category("4-Read-Later")
    ELSE IF urgency > 4 * Tenth \/ importance > 3 * Tenth
    THEN Category("3-Action-Required")
    ELSE Category("5-Reference")

\* faulty variant of benevolence_override: lifts every low-priority category
override_any_low(routing, warmth) ==
    IF warmth > 6 * Tenth /\ routing.priority = "low"
    THEN Category("3-Action-Required")
    ELSE routing

\* benevolence clamp for personal communications (main step 6, refactored step 5)
benevolence_override(routing, warmth) ==
    IF warmth > 6 * Tenth /\ routing.folder = "5-Reference"
    THEN Category("3-Action-Required")
    ELSE routing

\* main: _generate_unified_gloss
generate_unified_gloss(urgency, importance, warmth, tension, topic_gloss) ==
    LET d1 == IF warmth > 5 * Tenth THEN << "warm" >>
              ELSE IF warmth < -(3 * Tenth) THEN << "cold" >> ELSE << >>
        d2 == IF urgency > 7 * Tenth THEN << "urgent" >>
              ELSE IF urgency > 4 * Tenth THEN << "time-sensitive" >> ELSE << >>
        d3 == IF importance > 6 * Tenth THEN << "significant" >>
              ELSE IF importance > 3 * Tenth THEN << "important" >> ELSE << >>
        d4 == IF tension > 5 * Tenth THEN << "tense" >> ELSE << >>
        tone_descriptors == d1 \o d2 \o d3 \o d4
        topic == IF Contains(topic_gloss, ":")
                 THEN Strip(AfterFirstColon(topic_gloss))
                 ELSE "communication"
        tone_str == IF Len(tone_descriptors) = 0 THEN "routine"
                    ELSE Join(" and ", Dedup(tone_descriptors))
    IN  "A " \o tone_str \o " message about " \o topic

\* refactored: _generate_unified_gloss
refactored_generate_unified_gloss(ps, urgency, importance, warmth, tension) ==
    LET d1 == IF warmth > 5 * Tenth THEN << "warm" >> ELSE << >>
        d2 == IF tension > 5 * Tenth THEN << "pressing" >> ELSE << >>
        d3 == IF urgency > 7 * Tenth THEN << "urgent" >> ELSE << >>
        d4 == IF importance > 6 * Tenth THEN << "significant" >> ELSE << >>
        found == d1 \o d2 \o d3 \o d4
        tone_descriptors == IF Len(found) = 0 THEN << "routine" >> ELSE found
        tone_str == Join(" and ", Dedup(tone_descriptors))
        topic == IF HasKey(ps, "topic") /\ Contains(Get(ps, "topic").gloss, ":")
                 THEN Strip(AfterFirstColon(Get(ps, "topic").gloss))
                 ELSE "communication"
    IN  "A " \o tone_str \o " message about " \o topic

RECURSIVE JoinBytes(_)
JoinBytes(ps) ==
    IF Len(ps) = 0 THEN << >> ELSE ps[1].semantic_motif \o JoinBytes(Tail(ps))

\* b[:32]
Prefix32(b) == SubSeq(b, 1, IF Len(b) < 32 THEN Len(b) ELSE 32)

\* faulty variant of EmailAnalysis: the packets are not kept
EmailAnalysisWithoutPackets(fields) == [fields EXCEPT !.packets = << >>]

\* EmailAnalysis(...): the dataclass stores the fields it is given
EmailAnalysis(fields) == fields

\* main
route_email(ps, md) ==
    LET fusion == benevolence_clamp(ps)
        icon == glyph_from_hash(Prefix32(JoinBytes(ps)))
        topic_gloss == IF HasKey(ps, "topic") THEN Get(ps, "topic").gloss
                       ELSE "Primary topic: general"
        action_gloss == IF HasKey(ps, "action") THEN Get(ps, "action").gloss
                        ELSE "No action required"
        routing == benevolence_override(
                       threshold_category(fusion.urgency, fusion.importance,
                                          is_newsletter(ps, md)),
                       fusion.warmth)
    IN  IF fusion.exc # "none" THEN [exc |-> fusion.exc]
        ELSE IF icon.exc # "none" THEN [exc |-> icon.exc]
        ELSE EmailAnalysis(
             [exc |-> "none",
              icon |-> icon.val,
              gloss |-> generate_unified_gloss(fusion.urgency, fusion.importance,
                                               fusion.warmth, fusion.tension,
                                               topic_gloss),
              routing_folder |-> routing.folder,
              routing_color |-> routing.color,
              routing_priority |-> routing.priority,
              action |-> action_gloss,
              topic |-> topic_gloss,
              urgency |-> fusion.urgency,
              importance |-> fusion.importance,
              warmth |-> fusion.warmth,
              tension |-> fusion.tension,
              metadata |-> md,
              packets |-> ps])

\* refactored
refactored_route_email(ps, md) ==
    LET fusion == refactored_benevolence_clamp(ps)
        icon == refactored_glyph_from_hash(ps[1].semantic_motif)
        routing == benevolence_override(
                       threshold_category(fusion.urgency, fusion.importance,
                                          detect_newsletter(ps, md.subject)),
                       fusion.warmth)
        action_gloss == IF HasKey(ps, "action") THEN Get(ps, "action").gloss
                        ELSE "No specific action required"
        topic_gloss == IF HasKey(ps, "topic") THEN Get(ps, "topic").gloss
                       ELSE "Primary topic: general"
    IN  IF fusion.exc # "none" THEN [exc |-> fusion.exc]
        ELSE IF icon.exc # "none" THEN [exc |-> icon.exc]
        ELSE EmailAnalysis(
             [exc |-> "none",
              icon |-> icon.val,
              gloss |-> refactored_generate_unified_gloss(
                            ps, fusion.urgency, fusion.importance,
                            fusion.warmth, fusion.tension),
              routing_folder |-> routing.folder,
              routing_color |-> routing.color,
              routing_priority |-> routing.priority,
              action |-> action_gloss,
              topic |-> topic_gloss,
              urgency |-> fusion.urgency,
              importance |-> fusion.importance,
              warmth |-> fusion.warmth,
              tension |-> fusion.tension,
              metadata |-> md,
              packets |-> ps])

----------------------------------------------------------------------------
(* The five agents and the packet assembler: analyze_email_agents.          *)
(* The keyword and pattern scoring of the message text is not modelled: the *)
(* scores the agents return are inputs, drawn from the range each agent can *)
(* return.  What is derived from a score in the source is derived here.     *)

\* stand-in for hashlib.sha256(text).digest(): a fixed 32-byte value per text
semantic_hash(seed) == [i \in 1..32 |-> (seed * 41 + i * 7) % 256]

\* x * (num / 10) for a one-decimal factor
Times(x, num) == (x * num) \div 10

\* analyze_urgency: tension_score = min(1.0, urgency_score * 0.8)
urgency_tension(urgency_score) == Clamp(0, One, Times(urgency_score, 8))

\* analyze_urgency: gloss
urgency_gloss(urgency_score, has_temporal) ==
    IF urgency_score > 7 * Tenth THEN "Critical time pressure with immediate deadline"
    ELSE IF urgency_score > 4 * Tenth
    THEN IF has_temporal THEN "Moderate urgency with temporal constraints"
         ELSE "Some time pressure indicated"
    ELSE "Low urgency, flexible timeline"

\* refactored _analyze_urgency: gloss
refactored_urgency_gloss(score) ==
    IF score > 7 * Tenth THEN "Critical time pressure with immediate deadline"
    ELSE IF score > 4 * Tenth THEN "Moderate urgency with temporal constraints"
    ELSE "Low urgency, flexible timeline"

\* analyze_importance: gloss
importance_gloss(importance_score, dominant_domain) ==
    IF importance_score > 6 * Tenth
    THEN "Significant " \o dominant_domain \o " implications with long-term impact"
    ELSE IF importance_score > 3 * Tenth
    THEN "Moderate " \o dominant_domain \o " matter requiring attention"
    ELSE "Routine " \o dominant_domain \o " communication"

\* refactored _analyze_importance: gloss
refactored_importance_gloss(importance_score, dominant_domain) ==
    IF dominant_domain = "general" THEN "Low-impact general communication"
    ELSE IF importance_score > 5 * Tenth
    THEN "Significant " \o dominant_domain \o " implications"
    ELSE "Routine " \o dominant_domain \o " matter"

\* analyze_topic: gloss
topic_gloss_of(topic) ==
    IF topic = "general" THEN "Primary topic: general communication"
    ELSE "Primary topic: " \o topic

\* analyze_tone: gloss
tone_gloss(warmth, tension, formality) ==
    LET d == (IF warmth > 5 * Tenth THEN << "warm" >> ELSE << >>) \o
             (IF tension > 5 * Tenth THEN << "tense" >> ELSE << >>) \o
             (IF formality > 6 * Tenth THEN << "formal" >>
              ELSE IF formality < 3 * Tenth THEN << "casual" >> ELSE << >>)
    IN  "Tone: " \o Join(" and ", IF Len(d) = 0 THEN << "neutral" >> ELSE d)

\* refactored _analyze_tone: gloss
refactored_tone_gloss(warmth_score, tension_score) ==
    LET d == (IF warmth_score > 5 * Tenth THEN << "warm" >> ELSE << >>) \o
             (IF tension_score > 5 * Tenth THEN << "tense" >> ELSE << >>)
    IN  "Tone: " \o Join(" and ", IF Len(d) = 0 THEN << "neutral" >> ELSE d)

RawSpine(u, i, w, t, c) ==
    [urgency |-> u, importance |-> i, warmth |-> w, tension |-> t, confidence |-> c]

Confidence(percent) == (percent * One) \div 100

\* main: the five packets, in the order the source inserts them
analyze_email_agents(sc) ==
    LET tension_score == urgency_tension(sc.urgency)
    IN  << VSEPacket("main", "urgency",
                     RawSpine(sc.urgency, 0, 0, tension_score, Confidence(95)),
                     [ZeroAffect EXCEPT !.fear = Times(tension_score, 8)],
                     semantic_hash(1), urgency_gloss(sc.urgency, sc.has_temporal),
                     Confidence(95)),
           VSEPacket("main", "importance",
                     RawSpine(0, sc.importance, 0, 0, Confidence(90)),
                     ZeroAffect,
                     semantic_hash(2), importance_gloss(sc.importance, sc.domain),
                     Confidence(90)),
           VSEPacket("main", "topic",
                     RawSpine(0, 0, 0, 0, Confidence(85)),
                     ZeroAffect,
                     semantic_hash(3), topic_gloss_of(sc.topic),
                     Confidence(85)),
           VSEPacket("main", "tone",
                     RawSpine(0, 0, sc.warmth, sc.tone_tension, Confidence(90)),
                     [ZeroAffect EXCEPT !.joy = Times(sc.warmth, 9),
                                        !.fear = Times(sc.tone_tension, 7),
                                        !.trust = Times(sc.warmth, 8)],
                     semantic_hash(4),
                     tone_gloss(sc.warmth, sc.tone_tension, sc.formality),
                     Confidence(90)),
           VSEPacket("main", "action",
                     RawSpine(sc.urgency, sc.importance, sc.warmth, 0, Confidence(90)),
                     ZeroAffect,
                     semantic_hash(5), sc.action,
                     Confidence(90)) >>

\* refactored: here tension_score is the tone agent's tension
refactored_analyze_email_agents(sc) ==
    LET tension_score == sc.tone_tension
    IN  << VSEPacket("refactored", "urgency",
                     RawSpine(sc.urgency, 0, 0, tension_score, Confidence(95)),
                     [ZeroAffect EXCEPT !.fear = tension_score],
                     semantic_hash(1), refactored_urgency_gloss(sc.urgency),
                     Confidence(95)),
           VSEPacket("refactored", "importance",
                     RawSpine(0, sc.importance, 0, 0, Confidence(90)),
                     ZeroAffect,
                     semantic_hash(2),
                     refactored_importance_gloss(sc.importance, sc.domain),
                     Confidence(90)),
           VSEPacket("refactored", "topic",
                     RawSpine(0, 0, 0, 0, Confidence(85)),
                     ZeroAffect,
                     semantic_hash(3), "Primary topic: " \o sc.topic,
                     Confidence(85)),
           VSEPacket("refactored", "tone",
                     RawSpine(0, 0, sc.warmth, tension_score, Confidence(90)),
                     [ZeroAffect EXCEPT !.joy = sc.warmth,
                                        !.fear = tension_score,
                                        !.trust = sc.warmth],
                     semantic_hash(4),
                     refactored_tone_gloss(sc.warmth, tension_score),
                     Confidence(90)),
           VSEPacket("refactored", "action",
                     RawSpine(sc.urgency, sc.importance, sc.warmth, tension_score,
                              Confidence(90)),
                     ZeroAffect,
                     semantic_hash(5), sc.action,
                     Confidence(90)) >>

----------------------------------------------------------------------------
(* The single-file engine: BenevolentFusion (src/esper_email_swarm.py) *)

\* ESPERAgent._analyze_importance: gloss
legacy_importance_gloss(importance_score, dominant_domain) ==
    IF importance_score > 5 * Tenth
    THEN "Significant " \o dominant_domain \o " implications"
    ELSE "Routine " \o dominant_domain \o " matter"

\* ESPERAgent._analyze_tone: gloss
legacy_tone_gloss(warmth, tension, formality) ==
    LET tone_desc ==
            (IF warmth > 5 * Tenth THEN << "warm" >> ELSE << >>) \o
            (IF tension > 5 * Tenth THEN << "tense" >> ELSE << >>) \o
            (IF formality > 6 * Tenth THEN << "formal" >>
             ELSE IF formality < 3 * Tenth THEN << "casual" >> ELSE << >>)
    IN  IF Len(tone_desc) > 0 THEN "Tone: " \o Join(", ", tone_desc)
        ELSE "Tone: neutral"

\* ESPERAgent._analyze_action: action_urgency = min(1.0, matches / 3.0)
legacy_action_urgency(matches) == Clamp(0, One, (matches * One) \div 3)

\* ESPERAgent._analyze_action: gloss, for a message whose matches are "reply" ones
legacy_action_gloss(matches) ==
    IF matches > 0 THEN "Reply within 24 hours" ELSE "Archive for later review"

\* ESPERAgent.analyze for the five roles: what merge_packets reads of each packet
legacy_packets(sc) ==
    << [agent_role |-> "urgency", urgency |-> sc.urgency, polarity |-> 0,
        warmth |-> 0, tension |-> sc.urgency,
        gloss |-> urgency_gloss(sc.urgency, sc.has_temporal)],
       [agent_role |-> "importance", urgency |-> 0, polarity |-> sc.importance,
        warmth |-> 0, tension |-> 0,
        gloss |-> legacy_importance_gloss(sc.importance, sc.domain)],
       [agent_role |-> "topic", urgency |-> 0, polarity |-> 0,
        warmth |-> 0, tension |-> 0,
        gloss |-> "Primary topic: " \o sc.topic],
       [agent_role |-> "tone", urgency |-> 0,
        polarity |-> sc.warmth - sc.tone_tension,
        warmth |-> sc.warmth, tension |-> sc.tone_tension,
        gloss |-> legacy_tone_gloss(sc.warmth, sc.tone_tension, sc.formality)],
       [agent_role |-> "action",
        urgency |-> legacy_action_urgency(sc.action_matches),
        polarity |-> legacy_action_urgency(sc.action_matches),
        warmth |-> 0, tension |-> legacy_action_urgency(sc.action_matches),
        gloss |-> legacy_action_gloss(sc.action_matches)] >>

\* BenevolentFusion._determine_routing
determine_routing(urgency, importance, warmth, topic) ==
    LET primary ==
            IF urgency > 7 * Tenth THEN Category("1-URGENT-NOW")
            ELSE IF importance > 6 * Tenth THEN Category("2-Important")
            ELSE IF urgency > 4 * Tenth \/ importance > 3 * Tenth
            THEN Category("3-Action-Required")
            ELSE IF \/ Contains(Lower(topic), "newsletter")
                    \/ Contains(Lower(topic), "unsubscribe")
            THEN Category("4-Read-Later")
            ELSE Category("5-Reference")
    IN  IF warmth > 6 * Tenth /\ primary.folder = "5-Reference"
        THEN [primary EXCEPT !.folder = "3-Action-Required", !.priority = "medium"]
        ELSE primary

WithRole(ps, role) == SelectSeq(ps, LAMBDA p : p.agent_role = role)

RECURSIVE SumUrgency(_)
SumUrgency(ps) == IF Len(ps) = 0 THEN 0 ELSE ps[1].urgency + SumUrgency(Tail(ps))

RECURSIVE SumPolarity(_)
SumPolarity(ps) == IF Len(ps) = 0 THEN 0 ELSE ps[1].polarity + SumPolarity(Tail(ps))

\* BenevolentFusion.merge_packets; the icon (a SHA-256 of the joined digests)
\* and the timestamp are not modelled
merge_packets(ps) ==
    IF Len(ps) = 0 THEN [exc |-> "ValueError"]
    ELSE
    LET max_urgency == Max({ps[k].urgency : k \in 1..Len(ps)})
        avg_urgency == SumUrgency(ps) \div Len(ps)
        final_urgency == (7 * max_urgency + 3 * avg_urgency) \div 10
        importance_packets == WithRole(ps, "importance")
        avg_importance == IF Len(importance_packets) > 0
                          THEN SumPolarity(importance_packets) \div Len(importance_packets)
                          ELSE 0
        tone_packets == WithRole(ps, "tone")
        warmth == IF Len(tone_packets) > 0 THEN tone_packets[1].warmth ELSE 0
        tension == IF Len(tone_packets) > 0 THEN tone_packets[1].tension ELSE 0
        topic_packets == WithRole(ps, "topic")
        topic_gloss == IF Len(topic_packets) > 0 THEN topic_packets[1].gloss
                       ELSE "general"
        action_packets == WithRole(ps, "action")
        action_gloss == IF Len(action_packets) > 0 THEN action_packets[1].gloss
                        ELSE "No action required"
    IN  [exc |-> "none",
         routing |-> determine_routing(final_urgency, avg_importance, warmth,
                                       topic_gloss),
         urgency |-> final_urgency,
         importance |-> avg_importance,
         warmth |-> warmth,
         tension |-> tension,
         action |-> action_gloss,
         topic |-> topic_gloss]

\* no division of merge_packets(ps) rounds
MergeExact(ps) ==
    \/ Len(ps) = 0
    \/ /\ Divides(Len(ps), SumUrgency(ps))
       /\ Divides(10, 7 * Max({ps[k].urgency : k \in 1..Len(ps)})
                      + 3 * (SumUrgency(ps) \div Len(ps)))

----------------------------------------------------------------------------
(* Inputs *)

Variants == {"main", "refactored"}

Unset == [exc |-> "unset"]

EmailMetadata(sender, subject) == [sender |-> sender, subject |-> subject]

Metadatas ==
    { EmailMetadata("jane@company.com", "Quarterly Report"),
      EmailMetadata("NoReply@shop.com", "Weekly Status Update"),
      EmailMetadata("jane@company.com", "Monthly Update"),
      EmailMetadata("newsletter@airesearch.com", "Weekly Digest") }

PlainMetadata == EmailMetadata("jane@company.com", "Quarterly Report")

NoScores == [urgency |-> 0]

\* arguments of one hand-written VSEPacket(...) call
PacketArgs(spine, motif, gloss) == [spine |-> spine, motif |-> motif, gloss |-> gloss]

\* packets that differ in urgency, importance and warmth, to drive the routing
RoutingInputs ==
    { PacketArgs(RawSpine(u, i, w, 0, 9 * Tenth), semantic_hash(7), "Test packet") :
        u \in {0, 7 * Tenth, 8 * Tenth},
        i \in {0, 6 * Tenth, 7 * Tenth},
        w \in {0, 8 * Tenth} }
    \cup
    { PacketArgs(RawSpine(u, 0, 0, 0, 9 * Tenth), semantic_hash(8),
                 "Primary topic: Newsletter") : u \in {0, 7 * Tenth} }

\* packets that differ in warmth and tension, to drive the tension clamp;
\* the last one is out of range in every dimension
ClampInputs ==
    { PacketArgs(RawSpine(5 * Tenth, 5 * Tenth, w, t, 9 * Tenth), semantic_hash(7),
                 "Test packet") :
        w \in {6 * Tenth, 8 * Tenth, 9 * Tenth},
        t \in {7 * Tenth, 8 * Tenth, 9 * Tenth} }
    \cup
    { PacketArgs(RawSpine(5 * Tenth, 5 * Tenth, -One, 9 * Tenth, 9 * Tenth),
                 semantic_hash(7), "Test packet"),
      PacketArgs(RawSpine(15 * Tenth, -2 * Tenth, 2 * One, 13 * Tenth, 9 * Tenth),
                 semantic_hash(7), "Test packet") }

\* packets whose digest is not 32 bytes long
DigestInputs ==
    { PacketArgs(RawSpine(8 * Tenth, 0, 0, 0, 9 * Tenth),
                 SubSeq(semantic_hash(9), 1, k), "Test packet") : k \in {0, 2, 16, 17} }

InputFamilies == << RoutingInputs, ClampInputs, DigestInputs >>

\* role keys of a hand-built mapping of family k, by position
FamilyRoles(k) ==
    IF k = 2 THEN << "topic", "tone", "action", "urgency", "importance" >>
    ELSE << "urgency", "importance", "topic", "tone", "action" >>

\* what the agents can return for a message (main and refactored)
AgentScores ==
    [ urgency : {0, 5 * Tenth, 8 * Tenth, One},
      has_temporal : BOOLEAN,
      importance : {0, 4 * Tenth, One},
      domain : {"financial"},
      topic : {"general", "newsletter"},
      warmth : {0, 3 * Tenth, 7 * Tenth, One},
      tone_tension : {0, One},
      formality : {0, One},
      action : {"Reply within 24 hours", "Archive after review"} ]

\* the importance agent names the domain "general" exactly when nothing matched
WithDomain(sc) == [sc EXCEPT !.domain = IF sc.importance = 0 THEN "general" ELSE @]

\* what the agents of the single-file engine can return for a message
LegacyScores ==
    [ urgency : {0, 6 * Tenth, One},
      has_temporal : {TRUE},
      importance : {0, 4 * Tenth, 7 * Tenth},
      domain : {"financial"},
      topic : {"general", "newsletter"},
      warmth : {0, 7 * Tenth},
      tone_tension : {0},
      formality : {5 * Tenth},
      action_matches : {0, 3} ]

----------------------------------------------------------------------------
(* State machine *)

Init ==
    /\ variant = "main"
    /\ op = "none"
    /\ raised = "none"
    /\ packets = << >>
    /\ metadata = PlainMetadata
    /\ scores = NoScores
    /\ fused = Unset
    /\ analysis = Unset
    /\ legacy = Unset
    /\ inexact = FALSE
    /\ ret = [fn |-> "none"]
    /\ imap = [phase |-> "idle"]
    /\ batch = [phase |-> "idle"]
    /\ runs = << >>
    /\ client = [phase |-> "idle"]

\* A caller builds a packet mapping by hand, one VSEPacket(...) per role key.
\* A constructor that raises leaves the caller without a mapping.
BuildPackets ==
    /\ op = "none"
    /\ \E v \in Variants, k \in 1..Len(InputFamilies), n \in 0..MaxPackets :
      \E args \in [1..n -> InputFamilies[k]],
         md \in (IF k = 1 THEN Metadatas ELSE {PlainMetadata}) :
        LET built == [i \in 1..n |->
                         VSEPacket(v, FamilyRoles(k)[i], args[i].spine, ZeroAffect,
                                   args[i].motif, args[i].gloss,
                                   args[i].spine.confidence)]
            failed == {i \in 1..n : built[i].exc # "none"}
        IN  /\ variant' = v
            /\ op' = "construct"
            /\ raised' = IF failed = {} THEN "none"
                         ELSE built[CHOOSE i \in failed : \A j \in failed : i <= j].exc
            /\ packets' = IF failed = {} THEN [i \in 1..n |-> built[i].val] ELSE << >>
            /\ metadata' = md
            /\ scores' = NoScores
            /\ fused' = Unset
            /\ analysis' = Unset
            /\ legacy' = Unset
            /\ UNCHANGED inexact
            /\ UNCHANGED extVars

\* analyze_email_agents(full_text, ...) on a message the agents score as sc
AnalyzeEmailAgents ==
    /\ op = "none"
    /\ \E v \in Variants, raw \in AgentScores, md \in Metadatas :
        LET sc == WithDomain(raw)
            built == IF v = "main" THEN analyze_email_agents(sc)
                     ELSE refactored_analyze_email_agents(sc)
            failed == {i \in 1..Len(built) : built[i].exc # "none"}
        IN  /\ variant' = v
            /\ op' = "analyze_email_agents"
            /\ raised' = IF failed = {} THEN "none"
                         ELSE built[CHOOSE i \in failed : \A j \in failed : i <= j].exc
            /\ packets' = IF failed = {} THEN [i \in 1..Len(built) |-> built[i].val]
                          ELSE << >>
            /\ metadata' = md
            /\ scores' = sc
            /\ fused' = Unset
            /\ analysis' = Unset
            /\ legacy' = Unset
            /\ UNCHANGED inexact
            /\ UNCHANGED extVars

HasInput == op \in {"construct", "analyze_email_agents"}

\* benevolence_clamp(packets)
CallBenevolenceClamp ==
    /\ HasInput
    /\ LET r == IF variant = "main" THEN benevolence_clamp(packets)
                ELSE refactored_benevolence_clamp(packets)
       IN  /\ op' = "benevolence_clamp"
           /\ raised' = r.exc
           /\ fused' = IF r.exc = "none" THEN r ELSE Unset
    /\ analysis' = Unset
    /\ inexact' = (inexact \/ ~FusionExact(packets))
    /\ UNCHANGED << variant, packets, metadata, scores, legacy >>
    /\ UNCHANGED extVars

\* route_email(packets, metadata)
CallRouteEmail ==
    /\ HasInput
    /\ LET r == IF variant = "main" THEN route_email(packets, metadata)
                ELSE refactored_route_email(packets, metadata)
       IN  /\ op' = "route_email"
           /\ raised' = r.exc
           /\ analysis' = IF r.exc = "none" THEN r ELSE Unset
    /\ fused' = Unset
    /\ inexact' = (inexact \/ ~FusionExact(packets))
    /\ UNCHANGED << variant, packets, metadata, scores, legacy >>
    /\ UNCHANGED extVars

\* BenevolentFusion.merge_packets(packets) on the packets of the five agents
MergePackets ==
    /\ op = "none"
    /\ \E sc \in LegacyScores :
        LET ps == legacy_packets(WithDomain(sc))
            r == merge_packets(ps)
        IN  /\ variant' = "monolith"
            /\ op' = "merge_packets"
            /\ raised' = r.exc
            /\ legacy' = IF r.exc = "none" THEN r ELSE Unset
            /\ scores' = WithDomain(sc)
            /\ packets' = << >>
            /\ metadata' = PlainMetadata
            /\ fused' = Unset
            /\ analysis' = Unset
            /\ inexact' = (inexact \/ ~MergeExact(ps))
            /\ UNCHANGED extVars

\* hand-built packets through fusion and routing, and the single-file engine
Next == BuildPackets \/ CallBenevolenceClamp \/ CallRouteEmail \/ MergePackets

Spec == Init /\ [][Next]_vars

\* the pipeline: analyze_email_agents, then route_email
NextPipeline == AnalyzeEmailAgents \/ CallBenevolenceClamp \/ CallRouteEmail

SpecPipeline == Init /\ [][NextPipeline]_vars

----------------------------------------------------------------------------
(* The functions of model.py called on their own *)

\* a byte string of n bytes
Digest(seed, n) == [i \in 1..n |-> (seed * 41 + i * 7) % 256]

\* values a caller may hand to a numeric field, in and out of range
RawValues == {-2 * One, -5 * Tenth, 0, 5 * Tenth, One, 15 * Tenth}

\* glyph_from_hash(motif)
CallGlyphFromHash ==
    /\ op = "none" /\ ret.fn = "none"
    /\ \E v \in Variants, seed \in 1..3, n \in 0..MaxDigestLen :
         LET motif == Digest(seed, n)
         IN  ret' = [fn |-> "glyph_from_hash",
                     variant |-> v,
                     motif |-> motif,
                     table |-> IF v = "main" THEN PICTOGRAM_GLYPHS ELSE SEMANTIC_GLYPHS,
                     out |-> IF v = "main" THEN glyph_from_hash(motif)
                             ELSE refactored_glyph_from_hash(motif)]
    /\ UNCHANGED coreVars
    /\ UNCHANGED << imap, batch, runs, client >>

\* VSEPacket(agent_role, IntentSpine(...), AffectLattice(...), motif, gloss, confidence)
ConstructPacket ==
    /\ op = "none" /\ ret.fn = "none"
    /\ \E v \in Variants, u \in RawValues, w \in RawValues, joy \in RawValues,
          c \in RawValues :
         ret' = [fn |-> "VSEPacket",
                 variant |-> v,
                 out |-> VSEPacket(v, "tone", RawSpine(u, 0, w, 0, 9 * Tenth),
                                   [ZeroAffect EXCEPT !.joy = joy],
                                   semantic_hash(4), "Tone: neutral", c)]
    /\ UNCHANGED coreVars
    /\ UNCHANGED << imap, batch, runs, client >>

NextModel == CallGlyphFromHash \/ ConstructPacket

SpecModel == Init /\ [][NextModel]_vars

----------------------------------------------------------------------------
(* Batch runs: the message loop of the command-line tools *)

Implementations == {"main", "refactored", "monolith"}

AllRoles == {"urgency", "importance", "topic", "tone", "action"}

\* the agents that raise on a message: none, one of them, all of them
FailureSets == { {}, {"tone"}, AllRoles }

\* what the agents return for the messages of a batch, when they return
SampleScores ==
    [ urgency |-> 5 * Tenth, has_temporal |-> TRUE,
      importance |-> 4 * Tenth, domain |-> "financial",
      topic |-> "budget", warmth |-> 3 * Tenth, tone_tension |-> 0,
      formality |-> 5 * Tenth, action |-> "Reply within 24 hours",
      action_matches |-> 3 ]

Roles(ps) == [i \in 1..Len(ps) |-> ps[i].agent_role]

\* analyze_email_agents on a message on which the agents in failing raise: the
\* five agent calls are made one after the other, outside any try block
assemble_packets(v, sc, failing) ==
    IF failing # {} THEN [exc |-> "Exception"]
    ELSE LET built == IF v = "main" THEN analyze_email_agents(sc)
                      ELSE refactored_analyze_email_agents(sc)
         IN  [exc |-> "none", val |-> [i \in 1..Len(built) |-> built[i].val]]

\* main: processor.process_email; refactored: cli.process_raw_email
process_email(v, msg) ==
    LET assembled == assemble_packets(v, SampleScores, msg.failing)
        routed == IF v = "main" THEN route_email(assembled.val, PlainMetadata)
                  ELSE refactored_route_email(assembled.val, PlainMetadata)
    IN  IF assembled.exc # "none" THEN [exc |-> assembled.exc]
        ELSE IF routed.exc # "none" THEN [exc |-> routed.exc]
        ELSE [exc |-> "none",
              roles |-> Roles(routed.packets),
              folder |-> routed.routing_folder]

\* EmailProcessor.process_email_string: each agent runs in its own try block,
\* the packets of the agents that returned are merged
process_email_string(msg) ==
    LET produced == SelectSeq(legacy_packets(SampleScores),
                              LAMBDA p : p.agent_role \notin msg.failing)
        merged == merge_packets(produced)
    IN  IF merged.exc # "none" THEN [exc |-> merged.exc]
        ELSE [exc |-> "none",
              roles |-> Roles(produced),
              folder |-> merged.routing.folder]

process_message(impl, msg) ==
    IF impl = "monolith" THEN process_email_string(msg) ELSE process_email(impl, msg)

\* faulty variant of batch_step: the first failing message ends the loop
batch_step_abort(b) ==
    LET msg == b.messages[b.pos]
        r == process_message(b.impl, msg)
    IN  IF r.exc = "none"
        THEN [b EXCEPT !.results = Append(@, [id |-> msg.id, roles |-> r.roles,
                                              folder |-> r.folder]),
                       !.pos = @ + 1]
        ELSE [b EXCEPT !.pos = Len(b.messages) + 1]

\* one iteration of "for msg_id, raw_email in messages: try ... except Exception"
batch_step(b) ==
    LET msg == b.messages[b.pos]
        r == process_message(b.impl, msg)
    IN  IF r.exc = "none"
        THEN [b EXCEPT !.results = Append(@, [id |-> msg.id, roles |-> r.roles,
                                              folder |-> r.folder]),
                       !.pos = @ + 1]
        ELSE [b EXCEPT !.pos = @ + 1]

\* the status main() returns after the loop
exit_status(b) == 0

\* the messages are fetched and the loop is entered
StartBatch ==
    /\ op = "none" /\ batch.phase = "idle" /\ ret.fn = "none"
    /\ \E impl \in Implementations, n \in 0..MaxMessages :
         \E failing \in [1..n -> FailureSets] :
           batch' = [phase |-> "loop",
                     impl |-> impl,
                     messages |-> [k \in 1..n |-> [id |-> k, failing |-> failing[k]]],
                     pos |-> 1,
                     results |-> << >>,
                     exit |-> -1]
    /\ UNCHANGED coreVars
    /\ UNCHANGED << ret, imap, runs, client >>

\* the loop body runs on the next message
ProcessMessage ==
    /\ batch.phase = "loop"
    /\ batch.pos <= Len(batch.messages)
    /\ batch' = batch_step(batch)
    /\ UNCHANGED coreVars
    /\ UNCHANGED << ret, imap, runs, client >>

\* the loop is over: results are written out and main() returns
FinishBatch ==
    /\ batch.phase = "loop"
    /\ batch.pos > Len(batch.messages)
    /\ batch' = [batch EXCEPT !.phase = "done", !.exit = exit_status(batch)]
    /\ UNCHANGED coreVars
    /\ UNCHANGED << ret, imap, runs, client >>

NextBatch == StartBatch \/ ProcessMessage \/ FinishBatch

SpecBatch == Init /\ [][NextBatch]_vars

----------------------------------------------------------------------------
(* IMAP: IMAPClient.fetch_messages and IMAPProcessor.process_inbox *)

Statuses == {"OK", "NO"}

\* what one FETCH does: answers OK, answers NO, or raises
FetchOutcomes == {"OK", "NO", "raise"}

\* a server as fetch_messages sees it; the search answers ids 1..n, oldest first
Servers ==
    UNION { [ connected : BOOLEAN, select : Statuses, search : Statuses,
              ids : {[k \in 1..n |-> k]}, fetch : [1..n -> FetchOutcomes] ]
            : n \in 0..MaxIds }

Command(cmd, id) == [cmd |-> cmd, id |-> id]

\* the Python slice ids[-limit:]
LastN(ids, limit) ==
    IF limit = 0 \/ limit >= Len(ids) THEN ids
    ELSE SubSeq(ids, Len(ids) - limit + 1, Len(ids))

\* "Get most recent N messages"
most_recent(v, ids, limit) ==
    IF v = "main"
    THEN IF Len(ids) > limit THEN LastN(ids, limit) ELSE ids
    ELSE LastN(ids, limit)

\* the for loop over message_ids: an id whose fetch answers NO or raises is skipped
fetch_loop(server, chosen) ==
    [ exc |-> "none",
      val |-> SelectSeq(chosen, LAMBDA id : server.fetch[id] = "OK"),
      log |-> << Command("select", 0), Command("search", 0) >>
              \o [i \in 1..Len(chosen) |-> Command("fetch", chosen[i])] ]

\* IMAPClient.fetch_messages of the main tree and of the refactored tree
fetch_messages(v, server, limit) ==
    IF ~server.connected THEN [exc |-> "ValueError", log |-> << >>]
    ELSE IF server.select # "OK"
    THEN [exc |-> "IMAP4.error", log |-> << Command("select", 0) >>]
    ELSE IF server.search # "OK"
    THEN IF v = "main"
         THEN [exc |-> "IMAP4.error",
               log |-> << Command("select", 0), Command("search", 0) >>]
         ELSE [exc |-> "none", val |-> << >>,
               log |-> << Command("select", 0), Command("search", 0) >>]
    ELSE fetch_loop(server, most_recent(v, server.ids, limit))

\* the ids IMAPProcessor.process_inbox hands to the processor, on a server that
\* accepts the connection, the selection and the search
process_inbox(server, limit) == fetch_loop(server, LastN(server.ids, limit))

\* one call of fetch_messages, or of process_inbox, with a limit >= 0
CallFetchMessages ==
    /\ op = "none" /\ imap.phase = "idle"
    /\ \E impl \in Implementations, server \in Servers, limit \in 0..(MaxIds + 1) :
         /\ impl = "monolith" =>
              server.connected /\ server.select = "OK" /\ server.search = "OK"
         /\ imap' = [phase |-> "returned", impl |-> impl, server |-> server,
                     limit |-> limit,
                     out |-> IF impl = "monolith" THEN process_inbox(server, limit)
                             ELSE fetch_messages(impl, server, limit)]
    /\ UNCHANGED coreVars
    /\ UNCHANGED << ret, batch, runs, client >>

NextImap == CallFetchMessages

SpecImap == Init /\ [][NextImap]_vars

----------------------------------------------------------------------------
(* Repeated runs: the pipeline is run twice on one message *)

\* what the agents return for the messages that are run twice
RunScores ==
    [ urgency : {0, One},
      has_temporal : {TRUE},
      importance : {0, One},
      domain : {"financial"},
      topic : {"general", "newsletter"},
      warmth : {0, One},
      tone_tension : {0},
      formality : {One},
      action : {"Reply within 24 hours"} ]

\* faulty variant of Stamped: the creation time is mixed into the digest
StampedIntoMotif(p, now) ==
    [f \in DOMAIN p \cup {"timestamp"} |->
        IF f = "timestamp" THEN now
        ELSE IF f = "semantic_motif"
        THEN [i \in DOMAIN p.semantic_motif |-> (p.semantic_motif[i] + now) % 256]
        ELSE p[f]]

\* the packet with its timestamp field, filled in by datetime.utcnow at creation
Stamped(p, now) ==
    [f \in DOMAIN p \cup {"timestamp"} |-> IF f = "timestamp" THEN now ELSE p[f]]

\* agents, packet assembly, fusion and routing, the first packet created at now
run_pipeline(v, sc, md, now) ==
    LET built == IF v = "main" THEN analyze_email_agents(sc)
                 ELSE refactored_analyze_email_agents(sc)
        failed == {i \in 1..Len(built) : built[i].exc # "none"}
        stamped == [i \in 1..Len(built) |-> Stamped(built[i].val, now + i - 1)]
    IN  IF failed # {}
        THEN [exc |-> built[CHOOSE i \in failed : \A j \in failed : i <= j].exc]
        ELSE IF v = "main" THEN route_email(stamped, md)
        ELSE refactored_route_email(stamped, md)

\* the pipeline runs on a message
FirstRun ==
    /\ op = "none" /\ runs = << >>
    /\ \E v \in Variants, raw \in RunScores, md \in Metadatas, now \in 1..MaxClock :
         runs' = << [variant |-> v, scores |-> WithDomain(raw), metadata |-> md,
                     now |-> now,
                     out |-> run_pipeline(v, WithDomain(raw), md, now)] >>
    /\ UNCHANGED coreVars
    /\ UNCHANGED << ret, imap, batch, client >>

\* the pipeline runs once more on the same text and metadata, at another time
SecondRun ==
    /\ Len(runs) = 1
    /\ \E now \in 1..MaxClock :
         runs' = Append(runs, [runs[1] EXCEPT
                     !.now = now,
                     !.out = run_pipeline(runs[1].variant, runs[1].scores,
                                          runs[1].metadata, now)])
    /\ UNCHANGED coreVars
    /\ UNCHANGED << ret, imap, batch, client >>

NextRuns == FirstRun \/ SecondRun

SpecRuns == Init /\ [][NextRuns]_vars

----------------------------------------------------------------------------
(* IMAPClient: connect, disconnect, fetch_messages and the with block *)

\* a client as __init__ leaves it: no connection object, no server session;
\* calls lists the methods the last operation called on the connection object
NewIMAPClient(v, mode) ==
    [ phase |-> mode, impl |-> v, connection |-> "None", session |-> "none",
      last |-> "__init__", was |-> "None", calls |-> << >>, exc |-> "none",
      block |-> "outside", pending |-> "none", propagated |-> "none" ]

\* connect(): the constructor of the connection may raise before the attribute
\* is assigned; login may raise after it is assigned
connect(c, outcome) ==
    IF outcome = "refused"
    THEN [c EXCEPT !.last = "connect", !.was = c.connection,
                   !.calls = << >>, !.exc = "OSError"]
    ELSE [c EXCEPT !.last = "connect", !.was = c.connection,
                   !.connection = "set",
                   !.session = IF outcome = "ok" THEN "AUTH" ELSE "NONAUTH",
                   !.calls = << "login" >>,
                   !.exc = IF outcome = "ok" THEN "none" ELSE "IMAP4.error"]

\* faulty variant of disconnect: the attribute is reset only when close and
\* logout went through
disconnect_unless_raised(c, close_ok) ==
    IF c.connection = "None"
    THEN [c EXCEPT !.last = "disconnect", !.was = c.connection,
                   !.calls = << >>, !.exc = "none"]
    ELSE IF c.session = "SELECTED" /\ close_ok
    THEN [c EXCEPT !.last = "disconnect", !.was = c.connection,
                   !.connection = "None", !.session = "LOGOUT",
                   !.calls = << "close", "logout" >>, !.exc = "none"]
    ELSE [c EXCEPT !.last = "disconnect", !.was = c.connection,
                   !.calls = << "close" >>, !.exc = "none"]

\* disconnect(): close() and logout() share one try block whose exception is
\* dropped; close() raises when no mailbox is selected or when the server fails
disconnect(c, close_ok) ==
    IF c.connection = "None"
    THEN [c EXCEPT !.last = "disconnect", !.was = c.connection,
                   !.calls = << >>, !.exc = "none"]
    ELSE IF c.session = "SELECTED" /\ close_ok
    THEN [c EXCEPT !.last = "disconnect", !.was = c.connection,
                   !.connection = "None", !.session = "LOGOUT",
                   !.calls = << "close", "logout" >>, !.exc = "none"]
    ELSE [c EXCEPT !.last = "disconnect", !.was = c.connection,
                   !.connection = "None",
                   !.calls = << "close" >>, !.exc = "none"]

\* fetch_messages on this client; a session that never logged in refuses select
client_fetch_messages(c, server, limit) ==
    LET r == fetch_messages(c.impl, server, limit)
    IN  IF c.connection = "set" /\ c.session \notin {"AUTH", "SELECTED"}
        THEN [c EXCEPT !.last = "fetch_messages", !.was = c.connection,
                       !.calls = << "select" >>, !.exc = "IMAP4.error"]
        ELSE [c EXCEPT !.last = "fetch_messages", !.was = c.connection,
                       !.calls = [i \in 1..Len(r.log) |-> r.log[i].cmd],
                       !.exc = r.exc,
                       !.session = IF c.connection = "None" THEN @
                                   ELSE IF server.select = "OK" THEN "SELECTED"
                                   ELSE "AUTH"]

\* the servers a client in the state of c can be talking to
ServersOf(c) == {server \in Servers : server.connected = (c.connection = "set")}

\* IMAPClient(host, user, password), used by plain calls or as a context manager
NewClient ==
    /\ op = "none" /\ client.phase = "idle"
    /\ \E v \in Variants, mode \in {"calls", "with"} : client' = NewIMAPClient(v, mode)
    /\ UNCHANGED coreVars
    /\ UNCHANGED << ret, imap, batch, runs >>

Connect ==
    /\ client.phase = "calls"
    /\ \E outcome \in {"ok", "refused", "login_failed"} : client' = connect(client, outcome)
    /\ UNCHANGED coreVars
    /\ UNCHANGED << ret, imap, batch, runs >>

Disconnect ==
    /\ client.phase = "calls"
    /\ \E close_ok \in BOOLEAN : client' = disconnect(client, close_ok)
    /\ UNCHANGED coreVars
    /\ UNCHANGED << ret, imap, batch, runs >>

FetchMessages ==
    /\ client.phase = "calls"
    /\ \E server \in ServersOf(client), limit \in 0..(MaxIds + 1) :
         client' = client_fetch_messages(client, server, limit)
    /\ UNCHANGED coreVars
    /\ UNCHANGED << ret, imap, batch, runs >>

\* __enter__: connect(); when it raises the block is never entered
EnterBlock ==
    /\ client.phase = "with" /\ client.block = "outside"
    /\ \E outcome \in {"ok", "refused", "login_failed"} :
         LET c == connect(client, outcome)
         IN  client' = [c EXCEPT !.block = IF c.exc = "none" THEN "inside" ELSE "failed",
                                 !.propagated = c.exc]
    /\ UNCHANGED coreVars
    /\ UNCHANGED << ret, imap, batch, runs >>

\* the body of the block: fetch_messages, then the processing of the messages,
\* which may raise as well
BlockBody ==
    /\ client.phase = "with" /\ client.block = "inside"
    /\ \E server \in ServersOf(client), limit \in 0..(MaxIds + 1),
          processing \in {"none", "Exception"} :
         LET c == client_fetch_messages(client, server, limit)
         IN  client' = [c EXCEPT !.block = "leaving",
                                 !.pending = IF c.exc # "none" THEN c.exc ELSE processing]
    /\ UNCHANGED coreVars
    /\ UNCHANGED << ret, imap, batch, runs >>

\* __exit__: disconnect(), then a false return value: the error is not suppressed
ExitBlock ==
    /\ client.phase = "with" /\ client.block = "leaving"
    /\ \E close_ok \in BOOLEAN :
         LET c == disconnect(client, close_ok)
         IN  client' = [c EXCEPT !.block = "left", !.propagated = c.pending]
    /\ UNCHANGED coreVars
    /\ UNCHANGED << ret, imap, batch, runs >>

NextClient ==
    \/ NewClient \/ Connect \/ Disconnect \/ FetchMessages
    \/ EnterBlock \/ BlockBody \/ ExitBlock

SpecClient == Init /\ [][NextClient]_vars

----------------------------------------------------------------------------
(* The agents on text: urgency (refactored), tone, action, the empty text *)

\* words a text or a subject line is made of
Vocabulary == {"Generic", "text", "URGENT", "Now", "today"}

Texts == UNION {[1..n -> Vocabulary] : n \in 0..MaxWords}

\* _analyze_urgency: the weight of the pattern a word matches
urgency_weight(word) ==
    CASE word \in {"urgent", "asap", "immediately"} -> 3 * Tenth
      [] word \in {"today", "tonight"} -> One \div 4
      [] word \in {"deadline", "due", "expire", "expiring"} -> 2 * Tenth
      [] word \in {"quick", "quickly", "fast", "hurry"} -> (15 * One) \div 100
      [] word = "now" -> 2 * Tenth
      [] OTHER -> 0

RECURSIVE weighted_matches(_)
weighted_matches(text) ==
    IF Len(text) = 0 THEN 0
    ELSE urgency_weight(text[1]) + weighted_matches(Tail(text))

\* refactored _analyze_urgency(text): score = min(1.0, sum of matches * weight)
refactored_analyze_urgency(text) == Min({One, weighted_matches(text)})

\* refactored analyze_email_agents: the urgency score of the urgency packet;
\* the subject goes to the topic agent only
refactored_urgency_score(full_text, subject) ==
    LET text_lower == [i \in 1..Len(full_text) |-> Lower(full_text[i])]
    IN  refactored_analyze_urgency(text_lower)

\* the relationship terms the tone agent looks for in the sender
personal_indicators(v) ==
    IF v = "main"
    THEN {"mom", "dad", "mother", "father", "sister", "brother",
          "family", "friend", "personal"}
    ELSE {"mom", "dad", "sister", "brother", "family"}

is_personal(v, sender) ==
    \E ind \in personal_indicators(v) : Contains(Lower(sender), ind)

\* faulty variant of tone_warmth: the boost is added without the clamp
tone_warmth_unclamped(v, warmth_count, sender) ==
    LET warmth == Min({One, (warmth_count * One) \div 5})
    IN  IF is_personal(v, sender) THEN warmth + 3 * Tenth ELSE warmth

\* analyze_tone / _analyze_tone: warmth from the number of warmth indicators
\* found in the text and from the sender
tone_warmth(v, warmth_count, sender) ==
    LET warmth == Min({One, (warmth_count * One) \div 5})
    IN  IF is_personal(v, sender) THEN Min({One, warmth + 3 * Tenth}) ELSE warmth

\* ACTION_PATTERNS, in declaration order
ACTION_PATTERNS ==
    << [type |-> "reply", action |-> "Reply within 24 hours"],
       [type |-> "schedule", action |-> "Schedule a meeting or call"],
       [type |-> "review", action |-> "Review attached materials or document"],
       [type |-> "task", action |-> "Take specific action mentioned in email"],
       [type |-> "fyi", action |-> "Read and file for reference"] >>

ActionTypes == {ACTION_PATTERNS[i].type : i \in 1..Len(ACTION_PATTERNS)}

\* faulty variant of first_max: a later entry with an equal score wins
RECURSIVE last_max(_, _, _)
last_max(items, score, best) ==
    IF Len(items) = 0 THEN best
    ELSE last_max(Tail(items), score,
                  IF score[items[1].type] >= score[best.type] THEN items[1] ELSE best)

\* max(items, key=score): the first entry with the highest score
RECURSIVE first_max(_, _, _)
first_max(items, score, best) ==
    IF Len(items) = 0 THEN best
    ELSE first_max(Tail(items), score,
                   IF score[items[1].type] > score[best.type] THEN items[1] ELSE best)

\* faulty variant of analyze_action: the fallback does not look at its arguments
analyze_action_fixed_fallback(matches, urgency, importance) ==
    LET action_scores == SelectSeq(ACTION_PATTERNS, LAMBDA a : matches[a.type] > 0)
    IN  IF Len(action_scores) > 0
        THEN first_max(Tail(action_scores), matches, action_scores[1]).action
        ELSE "Reply within 24 hours"

\* analyze_action: matches[type] is the number of matches of the type's patterns
analyze_action(matches, urgency, importance) ==
    LET action_scores == SelectSeq(ACTION_PATTERNS, LAMBDA a : matches[a.type] > 0)
    IN  IF Len(action_scores) > 0
        THEN first_max(Tail(action_scores), matches, action_scores[1]).action
        ELSE IF urgency > 7 * Tenth THEN "Reply within 24 hours"
        ELSE IF importance > 6 * Tenth THEN "Schedule response in next few days"
        ELSE "Archive after review"

NoMatches == [t \in ActionTypes |-> 0]

\* what the five agents return for the empty text: no keyword, indicator or
\* pattern is found
EmptyTextScores(v) ==
    [ urgency |-> IF v = "main" THEN 0 ELSE refactored_urgency_score(<< >>, << >>),
      has_temporal |-> FALSE,
      importance |-> 0,
      domain |-> "general",
      topic |-> "general",
      warmth |-> tone_warmth(v, 0, ""),
      tone_tension |-> 0,
      formality |-> 0,
      action |-> IF v = "main" THEN analyze_action(NoMatches, 0, 0)
                 ELSE "Archive after quick scan" ]

\* analyze_email_agents("Generic text", subject=...) next to the same call
\* without a subject
CallWithSubject ==
    /\ op = "none" /\ ret.fn = "none"
    /\ \E full_text \in Texts, subject \in Texts :
         ret' = [fn |-> "analyze_email_agents",
                 full_text |-> full_text, subject |-> subject,
                 urgency |-> refactored_urgency_score(full_text, subject),
                 urgency_without |-> refactored_urgency_score(full_text, << >>)]
    /\ UNCHANGED coreVars
    /\ UNCHANGED << imap, batch, runs, client >>

\* the tone agent on one text, with two senders
CallAnalyzeTone ==
    /\ op = "none" /\ ret.fn = "none"
    /\ \E v \in Variants, warmth_count \in 0..MaxIndicators,
          sender \in {"Mom@family.net", "dad@home.org", "friend@club.org"},
          other \in {"jane@company.com", "billing@shop.com"} :
         ret' = [fn |-> "analyze_tone", variant |-> v,
                 warmth_count |-> warmth_count, sender |-> sender, other |-> other,
                 warmth |-> tone_warmth(v, warmth_count, sender),
                 warmth_other |-> tone_warmth(v, warmth_count, other)]
    /\ UNCHANGED coreVars
    /\ UNCHANGED << imap, batch, runs, client >>

CallAnalyzeAction ==
    /\ op = "none" /\ ret.fn = "none"
    /\ \E matches \in [ActionTypes -> 0..MaxMatches],
          urgency \in {0, 7 * Tenth, 8 * Tenth},
          importance \in {0, 6 * Tenth, 7 * Tenth} :
         ret' = [fn |-> "analyze_action", matches |-> matches,
                 urgency |-> urgency, importance |-> importance,
                 out |-> analyze_action(matches, urgency, importance)]
    /\ UNCHANGED coreVars
    /\ UNCHANGED << imap, batch, runs, client >>

\* analyze_email_agents on the empty text, then route_email
AnalyzeEmptyText ==
    /\ op = "none" /\ ret.fn = "none"
    /\ \E v \in Variants, md \in {EmailMetadata("", ""),
                                 EmailMetadata("test@example.com", "Empty")} :
         LET built == IF v = "main" THEN analyze_email_agents(EmptyTextScores(v))
                      ELSE refactored_analyze_email_agents(EmptyTextScores(v))
             assembled == IF \E i \in 1..Len(built) : built[i].exc # "none"
                          THEN [exc |-> "ValueError"]
                          ELSE [exc |-> "none",
                                val |-> [i \in 1..Len(built) |-> built[i].val]]
         IN  ret' = [fn |-> "empty_text", variant |-> v, metadata |-> md,
                     packets |-> assembled,
                     out |-> IF assembled.exc # "none" THEN [exc |-> assembled.exc]
                             ELSE IF v = "main" THEN route_email(assembled.val, md)
                             ELSE refactored_route_email(assembled.val, md)]
    /\ UNCHANGED coreVars
    /\ UNCHANGED << imap, batch, runs, client >>

NextAgents == CallWithSubject \/ CallAnalyzeTone \/ CallAnalyzeAction \/ AnalyzeEmptyText

SpecAgents == Init /\ [][NextAgents]_vars

----------------------------------------------------------------------------
(* Routing of two mappings that differ in tension only *)

\* signal vectors of hand-built packets: low or high in each dimension
TensionInputs ==
    { RawSpine(u, i, w, t, 9 * Tenth) :
        u \in {0, 8 * Tenth}, i \in {0, 7 * Tenth},
        w \in {0, 8 * Tenth}, t \in {0, 8 * Tenth} }

\* the mapping with the tension of packet i replaced by tensions[i]
WithTensions(ps, tensions) ==
    [i \in 1..Len(ps) |-> [ps[i] EXCEPT !.intent_spine.tension = tensions[i]]]

route(v, ps, md) ==
    IF v = "main" THEN route_email(ps, md) ELSE refactored_route_email(ps, md)

\* route_email on a mapping and on the same mapping with other tensions
RouteTensionVariants ==
    /\ op = "none" /\ ret.fn = "none"
    /\ \E v \in Variants, n \in 1..2 :
       \E spines \in [1..n -> TensionInputs], tensions \in [1..n -> {0, One}] :
         LET ps == [i \in 1..n |->
                       VSEPacket(v, FamilyRoles(1)[i], spines[i], ZeroAffect,
                                 semantic_hash(7), "Test packet", 9 * Tenth).val]
             altered == WithTensions(ps, tensions)
         IN  ret' = [fn |-> "route_email", variant |-> v,
                     packets |-> ps, altered |-> altered,
                     out |-> route(v, ps, PlainMetadata),
                     out_altered |-> route(v, altered, PlainMetadata)]
    /\ UNCHANGED coreVars
    /\ UNCHANGED << imap, batch, runs, client >>

NextTension == RouteTensionVariants

SpecTension == Init /\ [][NextTension]_vars

----------------------------------------------------------------------------
(* The router on hand-built mappings: the icon, explain_routing *)

\* explain_routing of the main tree: the entries under "Routing Logic Applied"
explain_routing(a) ==
    IF a.urgency > 7 * Tenth THEN << "urgency" >>
    ELSE IF a.importance > 6 * Tenth THEN << "importance" >>
    ELSE IF a.warmth > 6 * Tenth /\ a.routing_folder = "3-Action-Required"
    THEN << "benevolence clamp" >>
    ELSE << >>

\* explain_routing of the refactored tree: its explanations, in order
refactored_explain_routing(a) ==
    LET explanations ==
          (IF a.urgency > 7 * Tenth THEN << "urgency" >> ELSE << >>) \o
          (IF a.importance > 6 * Tenth THEN << "importance" >> ELSE << >>) \o
          (IF a.warmth > 6 * Tenth THEN << "warmth" >> ELSE << >>) \o
          (IF a.tension > 5 * Tenth THEN << "tension" >> ELSE << >>) \o
          (IF a.warmth > 6 * Tenth /\ a.routing_folder # "5-Reference"
           THEN << "benevolence clamp" >> ELSE << >>) \o
          (IF a.routing_folder = "4-Read-Later" THEN << "newsletter" >>
           ELSE << >>)
    IN  IF Len(explanations) = 0 THEN << "standard" >> ELSE explanations

\* route_email of both trees on mappings with the same 32-byte digests
RouteForIcon ==
    /\ op = "none" /\ ret.fn = "none"
    /\ \E n \in 1..3, spine \in TensionInputs :
       \E seeds \in [1..n -> {1, 2, 3, 22}] :
         LET ps(v) == [i \in 1..n |->
                          VSEPacket(v, FamilyRoles(1)[i], spine, ZeroAffect,
                                    semantic_hash(seeds[i]), "Test packet",
                                    9 * Tenth).val]
         IN  ret' = [fn |-> "icon", seeds |-> seeds,
                     first_motif |-> semantic_hash(seeds[1]),
                     out |-> route_email(ps("main"), PlainMetadata),
                     refactored_out |-> refactored_route_email(ps("refactored"),
                                                               PlainMetadata)]
    /\ UNCHANGED coreVars
    /\ UNCHANGED << imap, batch, runs, client >>

\* route_email on a one-packet mapping, then explain_routing on the analysis
ExplainRouting ==
    /\ op = "none" /\ ret.fn = "none"
    /\ \E v \in Variants,
          u \in {0, 5 * Tenth, 8 * Tenth}, i \in {0, 7 * Tenth}, w \in {0, 8 * Tenth},
          gloss \in {"Test packet", "Primary topic: Newsletter"} :
         LET ps == << VSEPacket(v, "topic", RawSpine(u, i, w, 0, 9 * Tenth),
                                ZeroAffect, semantic_hash(7), gloss, 9 * Tenth).val >>
             out == route(v, ps, PlainMetadata)
         IN  ret' = [fn |-> "explain_routing", variant |-> v, packets |-> ps,
                     out |-> out,
                     explanation |-> IF v = "main" THEN explain_routing(out)
                                     ELSE refactored_explain_routing(out)]
    /\ UNCHANGED coreVars
    /\ UNCHANGED << imap, batch, runs, client >>

NextRouter == RouteForIcon \/ ExplainRouting

SpecRouter == Init /\ [][NextRouter]_vars

\* the fixed-point arithmetic of the model is exact on every input it draws
ExactDivision == ~inexact

----------------------------------------------------------------------------
(* Properties *)

Routed == op = "route_email" /\ analysis # Unset
Fused == op = "benevolence_clamp" /\ fused # Unset
Merged == op = "merge_packets" /\ legacy # Unset

\* outcome of the bulk-mail detection of the source tree in use
BulkDetected ==
    IF variant = "main" THEN is_newsletter(packets, metadata)
    ELSE detect_newsletter(packets, metadata.subject)

\* bulk-mail test of the single-file engine, on the topic it merged
LegacyBulkDetected ==
    \/ Contains(Lower(legacy.topic), "newsletter")
    \/ Contains(Lower(legacy.topic), "unsubscribe")

RECURSIVE TotalUpTo(_, _, _)
TotalUpTo(ps, f, k) ==
    IF k = 0 THEN 0 ELSE TotalUpTo(ps, f, k - 1) + ps[k].intent_spine[f]

\* sum of dimension f over all packets
Total(ps, f) == TotalUpTo(ps, f, Len(ps))

\* the tension clamp of the fusion stage applies to the packets at hand
ClampApplies ==
    /\ Len(packets) > 0
    /\ Total(packets, "warmth") > 6 * Tenth * Len(packets)
    /\ Total(packets, "tension") > 7 * Tenth * Len(packets)

\* C1: whenever the fused urgency is above 0.7, route_email returns folder
\* 1-URGENT-NOW with priority critical and color #FF3B30, whatever the fused
\* importance, the bulk-mail detection outcome and the warmth are.
C1_UrgentFirst ==
    (Routed /\ analysis.urgency > 7 * Tenth) =>
        /\ analysis.routing_folder = "1-URGENT-NOW"
        /\ analysis.routing_priority = "critical"
        /\ analysis.routing_color = "#FF3B30"

\* an urgent, important, warm bulk message was routed
C1_Witness ==
    /\ Routed
    /\ analysis.urgency > 7 * Tenth
    /\ analysis.importance > 6 * Tenth
    /\ analysis.warmth > 6 * Tenth
    /\ BulkDetected
    /\ analysis.routing_folder = "1-URGENT-NOW"

\* C2: the benevolence override of route_email changes the category chosen by
\* the threshold step only when that category is 5-Reference and the fused
\* warmth is above 0.6, and then to 3-Action-Required; so no analysis has folder
\* 5-Reference together with warmth above 0.6, and the four other categories
\* are never altered by warmth.
C2_OverrideOnlyReference ==
    Routed =>
        LET chosen == threshold_category(analysis.urgency, analysis.importance,
                                         BulkDetected)
            expected == IF chosen.folder = "5-Reference" /\ analysis.warmth > 6 * Tenth
                        THEN Category("3-Action-Required")
                        ELSE chosen
        IN  /\ analysis.routing_folder = expected.folder
            /\ analysis.routing_color = expected.color
            /\ analysis.routing_priority = expected.priority
            /\ ~(analysis.routing_folder = "5-Reference" /\ analysis.warmth > 6 * Tenth)

\* a warm message the thresholds put in 5-Reference was lifted to 3-Action-Required
C2_Witness ==
    /\ Routed
    /\ analysis.warmth > 6 * Tenth
    /\ threshold_category(analysis.urgency, analysis.importance,
                          BulkDetected).folder = "5-Reference"
    /\ analysis.routing_folder = "3-Action-Required"

\* C3: when bulk mail is detected and the fused urgency is at most 0.7 and the
\* fused importance at most 0.6, the routing result is 4-Read-Later, also when
\* urgency > 0.4 or importance > 0.3; this in every routing implementation:
\* route_email of both packages and _determine_routing of the single-file engine.
C3_BulkBeforeActionRequired ==
    /\ (Routed /\ BulkDetected
          /\ analysis.urgency <= 7 * Tenth /\ analysis.importance <= 6 * Tenth)
       => analysis.routing_folder = "4-Read-Later"
    /\ (Merged /\ LegacyBulkDetected
          /\ legacy.urgency <= 7 * Tenth /\ legacy.importance <= 6 * Tenth)
       => legacy.routing.folder = "4-Read-Later"

\* C4: in the pipeline (analyze_email_agents, then route_email) a message the
\* urgency agent scores above 0.7 yields an analysis with urgency above 0.7,
\* folder 1-URGENT-NOW and priority critical.
C4_PipelineUrgent ==
    (Routed /\ scores.urgency > 7 * Tenth) =>
        /\ analysis.urgency > 7 * Tenth
        /\ analysis.routing_folder = "1-URGENT-NOW"
        /\ analysis.routing_priority = "critical"

\* C5: in the pipeline a message the tone agent scores with warmth above 0.6
\* yields an analysis with warmth above 0.5 and is never routed to 5-Reference.
C5_PipelineWarm ==
    (Routed /\ scores.warmth > 6 * Tenth) =>
        /\ analysis.warmth > 5 * Tenth
        /\ analysis.routing_folder # "5-Reference"

\* C6: benevolence_clamp returns tension = (mean tension + mean warmth) / 2
\* exactly when mean warmth > 0.6 and mean tension > 0.7, and the plain mean
\* tension otherwise; urgency, importance and warmth are the plain means in both
\* cases; one packet with warmth 0.8 and tension 0.9 fuses to tension 0.85.
C6_ClampTensionOnly ==
    Fused =>
        LET n == Len(packets)
        IN  /\ 2 * n * fused.tension =
                 IF ClampApplies
                 THEN Total(packets, "tension") + Total(packets, "warmth")
                 ELSE 2 * Total(packets, "tension")
            /\ n * fused.urgency = Total(packets, "urgency")
            /\ n * fused.importance = Total(packets, "importance")
            /\ n * fused.warmth = Total(packets, "warmth")
            /\ (/\ n = 1
                /\ packets[1].intent_spine.warmth = 8 * Tenth
                /\ packets[1].intent_spine.tension = 9 * Tenth)
               => 100 * fused.tension = 85 * One

\* one packet with warmth 0.8 and tension 0.9 was fused
C6_Witness ==
    /\ Fused
    /\ Len(packets) = 1
    /\ packets[1].intent_spine.warmth = 8 * Tenth
    /\ packets[1].intent_spine.tension = 9 * Tenth
    /\ 100 * fused.tension = 85 * One

\* C7: whenever the tension clamp of the fusion stage applies, the fused tension
\* is strictly lower than the mean tension of the packets.
C7_ClampLowersTension ==
    (Fused /\ ClampApplies) =>
        Len(packets) * fused.tension < Total(packets, "tension")

\* C8: for a non-empty mapping each of the fused urgency, importance and warmth
\* is the sum of the dimension over all packets divided by the number of
\* packets; a packet that left a dimension at 0 still counts in the divisor.
C8_MeanOverAllPackets ==
    Fused =>
        \A f \in {"urgency", "importance", "warmth"} :
            Len(packets) * fused[f] = Total(packets, f)

\* two packets were fused of which only one addressed warmth
C8_Witness ==
    /\ Fused
    /\ Len(packets) = 2
    /\ packets[1].intent_spine.warmth = 0
    /\ packets[2].intent_spine.warmth = 8 * Tenth
    /\ fused.warmth = 4 * Tenth

\* C9: benevolence_clamp with zero packets raises and returns no score vector;
\* route_email with zero packets propagates the error and produces no analysis
\* record, and route_email raises in no other case.
C9_RaisesOnlyOnEmpty ==
    /\ (op = "benevolence_clamp" /\ packets = << >>)
       => (raised # "none" /\ fused = Unset)
    /\ (op = "route_email" /\ packets = << >>)
       => (raised # "none" /\ analysis = Unset)
    /\ (op = "route_email" /\ packets # << >>) => raised = "none"

InUnit(x) == 0 <= x /\ x <= One

\* warmth is within the range the source tree in use declares for it
InWarmthRange(x) == (IF variant = "main" THEN -One ELSE 0) <= x /\ x <= One

\* C10: for a non-empty mapping the urgency, importance and tension returned by
\* benevolence_clamp and stored in the analysis record lie in [0,1], and the
\* fused warmth in the declared range of the tree: [-1,1] main, [0,1] refactored.
C10_ScoresInRange ==
    /\ Fused =>
         /\ InUnit(fused.urgency) /\ InUnit(fused.importance) /\ InUnit(fused.tension)
         /\ InWarmthRange(fused.warmth)
    /\ Routed =>
         /\ InUnit(analysis.urgency) /\ InUnit(analysis.importance)
         /\ InUnit(analysis.tension)
         /\ InWarmthRange(analysis.warmth)

\* a packet given out-of-range values was fused at the ends of the ranges
C10_Witness ==
    /\ Fused
    /\ variant = "main"
    /\ Len(packets) = 1
    /\ fused.urgency = One
    /\ fused.importance = 0
    /\ fused.tension = One

FiveRoles == << "urgency", "importance", "topic", "tone", "action" >>

\* the mapping analyze_email_agents returned for the message at hand
AssembledPackets ==
    LET built == IF variant = "main" THEN analyze_email_agents(scores)
                 ELSE refactored_analyze_email_agents(scores)
    IN  [i \in 1..Len(built) |-> built[i].val]

\* C11: route_email leaves every input packet unchanged (signal vector, affect
\* vector, digest, gloss, confidence) and the packets mapping of the analysis
\* holds exactly the input packets under the same role keys; for pipeline input
\* these are the five roles urgency, importance, topic, tone, action.
C11_PacketsPreserved ==
    Routed =>
        /\ packets = AssembledPackets
        /\ analysis.packets = AssembledPackets
        /\ [i \in 1..Len(analysis.packets) |-> analysis.packets[i].agent_role]
             = FiveRoles

\* a message with a warm tone and an urgent deadline went through the pipeline
C11_Witness ==
    /\ Routed
    /\ Len(analysis.packets) = 5
    /\ analysis.packets[1].intent_spine.urgency = One
    /\ analysis.packets[4].intent_spine.warmth = One
    /\ analysis.packets[4].affect_lattice.joy > 0


\* C12: in every routing result the color and priority are those of the
\* returned folder's category (1-URGENT-NOW: #FF3B30/critical, 2-Important:
\* #FF9500/high, 3-Action-Required: #FFCC00/medium, 4-Read-Later: #34C759/low,
\* 5-Reference: #8E8E93/low), also after the benevolence override reassigned
\* 5-Reference to 3-Action-Required; in route_email and in _determine_routing.
C12_ColorAndPriorityOfFolder ==
    /\ Routed =>
         /\ analysis.routing_folder \in Folders
         /\ analysis.routing_color = ROUTING_CATEGORIES[analysis.routing_folder].color
         /\ analysis.routing_priority
              = ROUTING_CATEGORIES[analysis.routing_folder].priority
    /\ Merged =>
         /\ legacy.routing.folder \in Folders
         /\ legacy.routing.color = ROUTING_CATEGORIES[legacy.routing.folder].color
         /\ legacy.routing.priority = ROUTING_CATEGORIES[legacy.routing.folder].priority

\* C13: glyph_from_hash returns exactly three symbols of the 64-entry glyph
\* table and never raises, for a digest of any length: the empty byte string
\* and any digest shorter than 17 bytes are handled by zero padding, and a
\* 32-byte digest uses bytes 0, 8 and 16, each taken modulo 64.
C13_GlyphNeverRaises ==
    ret.fn = "glyph_from_hash" =>
        /\ Len(ret.table) = 64
        /\ ret.out.exc = "none"
        /\ Len(ret.out.val) = 3
        /\ \A k \in 1..3 : \E j \in 1..64 : ret.out.val[k] = ret.table[j]
        /\ Len(ret.motif) = 32 =>
             ret.out.val = << ret.table[(ret.motif[1] % 64) + 1],
                              ret.table[(ret.motif[9] % 64) + 1],
                              ret.table[(ret.motif[17] % 64) + 1] >>

\* C14: no data constructor stores an out-of-range value: an IntentSpine, an
\* AffectLattice or a VSEPacket given a numeric field outside its declared
\* range clamps it or raises, so after construction every signal dimension,
\* every affect dimension and the packet's confidence lie in their ranges.
C14_NoOutOfRangeStored ==
    (ret.fn = "VSEPacket" /\ ret.out.exc = "none") =>
        LET p == ret.out.val
        IN  /\ \A f \in SpineFields :
                 /\ SpineLow(ret.variant, f) <= p.intent_spine[f]
                 /\ p.intent_spine[f] <= One
            /\ \A f \in AffectFields : InUnit(p.affect_lattice[f])
            /\ InUnit(p.confidence)

InBatch == batch.phase \in {"loop", "done"}

\* the messages the loop has gone through so far
Handled == SubSeq(batch.messages, 1, batch.pos - 1)

Fails(msg) == process_message(batch.impl, msg).exc # "none"

\* C15: in batch mode, for every sequence of fetched messages and every subset
\* of them whose processing raises, each remaining message is still processed,
\* and the results list holds exactly the analyses of the non-failing messages
\* in fetch order.
C15_BatchSurvivesFailures ==
    InBatch =>
        LET survivors == SelectSeq(Handled, LAMBDA m : ~Fails(m))
        IN  /\ Len(batch.results) = Len(survivors)
            /\ \A k \in 1..Len(survivors) :
                 /\ batch.results[k].id = survivors[k].id
                 /\ batch.results[k].folder
                      = process_message(batch.impl, survivors[k]).folder
            /\ batch.phase = "done" => batch.pos = Len(batch.messages) + 1

\* a run of three messages ended in which only the second one failed
C15_Witness ==
    /\ batch.phase = "done"
    /\ Len(batch.messages) = 3
    /\ ~Fails(batch.messages[1]) /\ Fails(batch.messages[2]) /\ ~Fails(batch.messages[3])
    /\ Len(batch.results) = 2
    /\ batch.results[1].id = 1 /\ batch.results[2].id = 3

\* C16: the exit status of a batch run reflects whether any message failed: a
\* run in which at least one fetched message failed to process ends with a
\* non-zero status, a run in which every message was processed ends with zero.
C16_ExitStatusReflectsFailures ==
    batch.phase = "done" =>
        (batch.exit = 0 <=> \A k \in 1..Len(batch.messages) : ~Fails(batch.messages[k]))

\* C17: when one agent raises on a message, the packets of the other agents
\* are still produced and routed for that message; the message fails as a unit
\* only when all five agents fail, fusion then receiving no packets.
C17_AgentFailureIsolated ==
    InBatch =>
        \A k \in 1..Len(Handled) :
            LET msg == Handled[k]
                mine == SelectSeq(batch.results, LAMBDA r : r.id = msg.id)
            IN  IF msg.failing = AllRoles THEN Len(mine) = 0
                ELSE /\ Len(mine) = 1
                     /\ {mine[1].roles[i] : i \in 1..Len(mine[1].roles)}
                          = AllRoles \ msg.failing

Returned == imap.phase = "returned"

Sent(cmd) == Len(SelectSeq(imap.out.log, LAMBDA c : c.cmd = cmd))

\* C18: IMAPClient.fetch_messages surfaces a failed mailbox selection and a
\* failed search to its caller as an error: in neither case does it return a
\* message list, empty or otherwise, and it never sends the failed command again.
C18_SelectSearchFailureSurfaced ==
    (/\ Returned
     /\ imap.impl \in Variants
     /\ imap.server.connected
     /\ (imap.server.select # "OK" \/ imap.server.search # "OK"))
    => /\ imap.out.exc # "none"
       /\ Sent("select") <= 1
       /\ Sent("search") <= 1

\* the ids a limit allows: the last min(limit, n) of the search result
Allowed ==
    LET ids == imap.server.ids
        from == Max({1, Len(ids) - imap.limit + 1})
    IN  SubSeq(ids, from, Len(ids))

\* C20: for every search result and every limit >= 0, at most limit messages
\* are returned, and they are the last ids of the search result in their
\* original order, minus those whose individual fetch failed.
C20_AtMostLimitMostRecent ==
    (Returned /\ imap.out.exc = "none" /\ imap.server.search = "OK")
    => /\ Len(imap.out.val) <= imap.limit
       /\ imap.out.val
            = SelectSeq(Allowed, LAMBDA id : imap.server.fetch[id] = "OK")

\* what a caller compares between two runs
Observed(out) ==
    IF out.exc # "none" THEN [exc |-> out.exc]
    ELSE [exc |-> "none",
          icon |-> out.icon,
          gloss |-> out.gloss,
          routing_folder |-> out.routing_folder,
          urgency |-> out.urgency,
          importance |-> out.importance,
          warmth |-> out.warmth,
          tension |-> out.tension,
          packets |-> [i \in 1..Len(out.packets) |->
                          [agent_role |-> out.packets[i].agent_role,
                           gloss |-> out.packets[i].gloss,
                           confidence |-> out.packets[i].confidence,
                           semantic_motif |-> out.packets[i].semantic_motif]]]

\* C19: running the full pipeline twice on the same text and metadata yields
\* identical icon, gloss, routing folder, the four fused scores and, per role,
\* identical packet gloss, confidence and digest; the packet creation
\* timestamps influence none of these.
C19_RunsAgree ==
    Len(runs) = 2 => Observed(runs[1].out) = Observed(runs[2].out)

\* two runs at different times, both routed, their packets stamped differently
C19_Witness ==
    /\ Len(runs) = 2
    /\ runs[1].now # runs[2].now
    /\ runs[1].out.exc = "none" /\ runs[2].out.exc = "none"
    /\ Len(runs[1].out.packets) = 5
    /\ runs[1].out.packets[1].timestamp # runs[2].out.packets[1].timestamp

HasClient == client.phase \in {"calls", "with"}

C30_BlockExitLogsOut ==
    (client.phase = "with" /\ client.block = "left")
    => /\ \E i \in 1..Len(client.calls) : client.calls[i] = "logout"
       /\ client.connection = "None"
       /\ client.propagated = client.pending

\* C22: the subject passed to analyze_email_agents influences the analysis:
\* for the same body text, a call with an urgent subject line yields a strictly
\* higher urgency in the urgency packet than a call without a subject.
C22_UrgentSubjectRaisesUrgency ==
    (/\ ret.fn = "analyze_email_agents"
     /\ \E i \in 1..Len(ret.subject) : urgency_weight(Lower(ret.subject[i])) > 0)
    => ret.urgency > ret.urgency_without

TonePair ==
    /\ ret.fn = "analyze_tone"
    /\ is_personal(ret.variant, ret.sender)
    /\ ~is_personal(ret.variant, ret.other)

Matched == {t \in ActionTypes : ret.matches[t] > 0}

\* position of a category in the declaration
Declared(t) == CHOOSE i \in 1..Len(ACTION_PATTERNS) : ACTION_PATTERNS[i].type = t

\* C25: analyze_action returns the action of the category with the highest
\* match count, ties going to the category declared first; when nothing
\* matches it returns "Reply within 24 hours" if urgency > 0.7, else "Schedule
\* response in next few days" if importance > 0.6, else "Archive after review";
\* urgency and importance have no effect when any pattern matches.
C25_ActionOfBestCategory ==
    ret.fn = "analyze_action" =>
        IF Matched # {}
        THEN \E t \in Matched :
               /\ \A u \in Matched : ret.matches[u] <= ret.matches[t]
               /\ \A u \in Matched : ret.matches[u] = ret.matches[t]
                                       => Declared(t) <= Declared(u)
               /\ ret.out = ACTION_PATTERNS[Declared(t)].action
        ELSE ret.out = (IF ret.urgency > 7 * Tenth THEN "Reply within 24 hours"
                        ELSE IF ret.importance > 6 * Tenth
                        THEN "Schedule response in next few days"
                        ELSE "Archive after review")

\* schedule and task tie for the highest count, urgency and importance are high
C25_Witness ==
    /\ ret.fn = "analyze_action"
    /\ ret.matches["reply"] = 1
    /\ ret.matches["schedule"] = 2
    /\ ret.matches["task"] = 2
    /\ ret.urgency > 7 * Tenth /\ ret.importance > 6 * Tenth
    /\ ret.out = "Schedule a meeting or call"

\* the gloss of each agent on a text in which it finds nothing
LowestGloss(v, role) ==
    CASE role = "urgency" -> "Low urgency, flexible timeline"
      [] role = "importance" -> IF v = "main" THEN "Routine general communication"
                                ELSE "Low-impact general communication"
      [] role = "topic" -> IF v = "main" THEN "Primary topic: general communication"
                           ELSE "Primary topic: general"
      [] role = "tone" -> IF v = "main" THEN "Tone: casual" ELSE "Tone: neutral"
      [] role = "action" -> IF v = "main" THEN "Archive after review"
                            ELSE "Archive after quick scan"

MainPipeline == variant = "main" /\ scores # NoScores /\ Len(packets) = 5

\* packet p has a non-zero value in dimension f
Carries(p, f) == p.intent_spine[f] # 0

\* what a fusion of pipeline packets can reach at most
DilutedScores(f) ==
    /\ f.urgency <= 4 * Tenth
    /\ f.importance <= 4 * Tenth
    /\ f.warmth <= 4 * Tenth
    /\ f.tension <= (36 * One) \div 100

C28_IconOfFirstDigest ==
    ret.fn = "icon" =>
        /\ ret.out.exc = "none" /\ ret.refactored_out.exc = "none"
        /\ ret.out.icon = glyph_from_hash(ret.first_motif).val
        /\ ret.refactored_out.icon = refactored_glyph_from_hash(ret.first_motif).val
        /\ ret.out.icon = ret.refactored_out.icon

\* the routing-stage override changed the folder of the explained analysis
FolderOverridden ==
    LET bulk == IF ret.variant = "main" THEN is_newsletter(ret.packets, PlainMetadata)
                ELSE detect_newsletter(ret.packets, PlainMetadata.subject)
    IN  /\ threshold_category(ret.out.urgency, ret.out.importance, bulk).folder
             = "5-Reference"
        /\ ret.out.routing_folder = "3-Action-Required"

\* C29: explain_routing states that the benevolence clamp was activated only
\* for analyses whose folder the routing-stage override changed from
\* 5-Reference to 3-Action-Required, never for an analysis that reached its
\* folder through the urgency, importance or bulk-mail thresholds.
C29_ClampReportedOnlyWhenApplied ==
    (/\ ret.fn = "explain_routing"
     /\ \E k \in 1..Len(ret.explanation) : ret.explanation[k] = "benevolence clamp")
    => FolderOverridden

============================================================================
